---- MODULE Spec2Model ----
(***************************************************************************)
(* RawMemory<T> and Vector<T> of vector.h.                                 *)
(*                                                                         *)
(* A block of raw memory is a sequence of cells; a cell either holds a     *)
(* live object of type T with a value, or is uninitialised.  An element    *)
(* type T is described by the three traits the code asks about.  A move    *)
(* hands the value over and leaves the source object alive in the          *)
(* MovedFrom state (T is a resource-owning type such as a string).         *)
(*                                                                         *)
(* Every operation that may throw (operator new, a constructor of T, an    *)
(* assignment of T) is a step; an operation is called with a number f:     *)
(* f = 0 means nothing throws, otherwise the f-th step of the call throws. *)
(* Indexes are the 0-based indexes of the C++ code.                        *)
(***************************************************************************)
EXTENDS Integers, Sequences, FiniteSets, TLC

MaxSize == 3     \* largest size a Vector is driven to
PairSize == 2    \* largest size of a Vector in the two-Vector specification
MaxVal == 2      \* element values are 0..MaxVal, 0 is the value of T()
MaxRawCap == 2   \* largest capacity of a RawMemory in the RawMemory specification
NumBlocks == 3   \* heap blocks of the RawMemory specification

Values == 0..MaxVal
\* the throwing step of a call: none (0), or one of its first k steps
Faults(k) == 0..k
NoFault == {0}
Names == {"a", "b"}

VARIABLES T,       \* the element type: its traits
          vec,     \* the Vector objects
          last,    \* the last call: its arguments, the state before it, its outcome
          raw,     \* the RawMemory objects (RawMemory specification)
          heap,    \* which heap blocks are allocated (RawMemory specification)
          lastRaw  \* the last RawMemory call

vars == <<T, vec, last, raw, heap, lastRaw>>

\* ---------------------------------------------------------------- element type
ElementTypes ==
    { [nothrow_move_constructible |-> TRUE,  copy_constructible |-> TRUE,
       nothrow_move_assignable |-> TRUE],
      [nothrow_move_constructible |-> FALSE, copy_constructible |-> TRUE,
       nothrow_move_assignable |-> FALSE],
      [nothrow_move_constructible |-> FALSE, copy_constructible |-> FALSE,
       nothrow_move_assignable |-> FALSE] }

MovedFrom == -1

\* ---------------------------------------------------------------- raw cells
Raw == [live |-> FALSE, val |-> 0]
Obj(v) == [live |-> TRUE, val |-> v]

At(d, i) == d[i + 1]
Put(d, i, c) == [d EXCEPT ![i + 1] = c]

\* RawMemory(capacity): n uninitialised cells
Allocate(n) == [k \in 1..n |-> Raw]

LiveCount(d) == Cardinality({k \in DOMAIN d : d[k].live})
LiveIn(d, first, n) == Cardinality({k \in DOMAIN d : k - 1 >= first /\ k - 1 < first + n /\ d[k].live})

\* the fault counter after a step that did not throw
Tick(f) == IF f = 0 THEN 0 ELSE f - 1

\* ---------------------------------------------------------------- <memory> algorithms
destroy_n(d, first, n) ==
    [k \in 1..Len(d) |-> IF k - 1 >= first /\ k - 1 < first + n THEN Raw ELSE d[k]]

RECURSIVE copy_loop(_, _, _, _, _, _, _)
copy_loop(src, first, n, dst, d0, dcur, f) ==
    IF n = 0 THEN [src |-> src, dst |-> dst, threw |-> FALSE, f |-> f]
    ELSE IF f = 1
         THEN [src |-> src, dst |-> destroy_n(dst, d0, dcur - d0), threw |-> TRUE, f |-> 0]
         ELSE copy_loop(src, first + 1, n - 1,
                        Put(dst, dcur, Obj(At(src, first).val)), d0, dcur + 1, Tick(f))

\* std::uninitialized_copy_n: copy-constructs n objects; when a copy throws the
\* objects already constructed are destroyed.
uninitialized_copy_n(src, first, n, dst, dfirst, f) ==
    copy_loop(src, first, n, dst, dfirst, dfirst, f)

RECURSIVE move_loop(_, _, _, _, _, _, _)
move_loop(src, first, n, dst, d0, dcur, f) ==
    IF n = 0 THEN [src |-> src, dst |-> dst, threw |-> FALSE, f |-> f]
    ELSE IF f = 1 /\ ~T.nothrow_move_constructible
         THEN [src |-> src, dst |-> destroy_n(dst, d0, dcur - d0), threw |-> TRUE, f |-> 0]
         ELSE move_loop(Put(src, first, Obj(MovedFrom)), first + 1, n - 1,
                        Put(dst, dcur, Obj(At(src, first).val)), d0, dcur + 1,
                        IF T.nothrow_move_constructible THEN f ELSE Tick(f))

\* std::uninitialized_move_n: move-constructs n objects; when a move throws the
\* objects already constructed are destroyed, their sources stay moved-from.
uninitialized_move_n(src, first, n, dst, dfirst, f) ==
    move_loop(src, first, n, dst, dfirst, dfirst, f)

RECURSIVE value_loop(_, _, _, _, _)
value_loop(d, d0, dcur, n, f) ==
    IF n = 0 THEN [dst |-> d, threw |-> FALSE, f |-> f]
    ELSE IF f = 1 THEN [dst |-> destroy_n(d, d0, dcur - d0), threw |-> TRUE, f |-> 0]
         ELSE value_loop(Put(d, dcur, Obj(0)), d0, dcur + 1, n - 1, Tick(f))

\* std::uninitialized_value_construct_n
uninitialized_value_construct_n(d, first, n, f) == value_loop(d, first, first, n, f)

\* std::copy: copy-assigns n objects, front to back
RECURSIVE std_copy(_, _, _, _, _, _)
std_copy(src, first, n, dst, dfirst, f) ==
    IF n = 0 THEN [dst |-> dst, threw |-> FALSE, f |-> f]
    ELSE IF f = 1 THEN [dst |-> dst, threw |-> TRUE, f |-> 0]
         ELSE std_copy(src, first + 1, n - 1,
                       Put(dst, dfirst, Obj(At(src, first).val)), dfirst + 1, Tick(f))

\* d[to] = std::move(d[from])
move_assign(d, from, to) ==
    IF from = to THEN d
    ELSE Put(Put(d, to, Obj(At(d, from).val)), from, Obj(MovedFrom))

\* std::move(first, last, dfirst) inside one block: move-assigns front to back
RECURSIVE std_move(_, _, _, _, _)
std_move(d, first, lst, dfirst, f) ==
    IF first >= lst THEN [dst |-> d, threw |-> FALSE, f |-> f]
    ELSE IF f = 1 /\ ~T.nothrow_move_assignable
         THEN [dst |-> d, threw |-> TRUE, f |-> 0]
         ELSE std_move(move_assign(d, first, dfirst), first + 1, lst, dfirst + 1,
                       IF T.nothrow_move_assignable THEN f ELSE Tick(f))

\* std::move_backward(first, last, dlast) inside one block: move-assigns back to front
RECURSIVE std_move_backward(_, _, _, _, _)
std_move_backward(d, first, lst, dlast, f) ==
    IF first >= lst THEN [dst |-> d, threw |-> FALSE, f |-> f]
    ELSE IF f = 1 /\ ~T.nothrow_move_assignable
         THEN [dst |-> d, threw |-> TRUE, f |-> 0]
         ELSE std_move_backward(move_assign(d, lst - 1, dlast - 1), first, lst - 1, dlast - 1,
                                IF T.nothrow_move_assignable THEN f ELSE Tick(f))

\* ---------------------------------------------------------------- Vector<T>
Dead == [alive |-> FALSE, data |-> <<>>, size |-> 0]
Vec(d, s) == [alive |-> TRUE, data |-> d, size |-> s]

Capacity(v) == Len(v.data)
Size(v) == v.size
\* the values of the elements [0, size)
Elements(v) == [k \in 1..v.size |-> v.data[k].val]

\* outcome of a call: the vector after it, whether it returned or threw, the
\* path taken, the index of the returned iterator, the number of objects lost
\* without a destructor call, and the fault counter left
Done(v, path, ret, leaked, f) ==
    [v |-> v, ok |-> TRUE, path |-> path, ret |-> ret, leaked |-> leaked, f |-> f]
Thrown(v, path, leaked) ==
    [v |-> v, ok |-> FALSE, path |-> path, ret |-> 0, leaked |-> leaked, f |-> 0]

\* a constructor argument: a value, or a reference to element x of the same vector
NoArg == [ref |-> FALSE, x |-> 0]
ArgVal(arg, d) == IF arg.ref THEN At(d, arg.x).val ELSE arg.x

\* mutant of UseMove: the elements are always moved into the new block
UseMoveAlways == TRUE

\* if constexpr (is_nothrow_move_constructible_v<T> || !is_copy_constructible_v<T>)
UseMove == T.nothrow_move_constructible \/ ~T.copy_constructible

Transfer(src, first, n, dst, dfirst, f) ==
    IF UseMove THEN uninitialized_move_n(src, first, n, dst, dfirst, f)
    ELSE uninitialized_copy_n(src, first, n, dst, dfirst, f)

\* mutant of NewCapacity: the block grows by one element
NewCapacityByOne(size) == size + 1

\* size_ == 0 ? 1 : size_ * 2
NewCapacity(size) == IF size = 0 THEN 1 ELSE size * 2

\* Vector(size_t size)
SizedConstruct(size, f) ==
    IF size # 0 /\ f = 1 THEN Thrown(Dead, "sized", 0)
    ELSE LET c == uninitialized_value_construct_n(Allocate(size), 0, size,
                                                  IF size = 0 THEN f ELSE Tick(f))
         IN IF c.threw THEN Thrown(Dead, "sized", LiveCount(c.dst))
            ELSE Done(Vec(c.dst, size), "sized", 0, 0, c.f)

\* Vector(const Vector& other)
CopyConstruct(other, f) ==
    IF other.size # 0 /\ f = 1 THEN Thrown(Dead, "copy", 0)
    ELSE LET c == uninitialized_copy_n(other.data, 0, other.size, Allocate(other.size), 0,
                                       IF other.size = 0 THEN f ELSE Tick(f))
         IN IF c.threw THEN Thrown(Dead, "copy", LiveCount(c.dst))
            ELSE Done(Vec(c.dst, other.size), "copy", 0, 0, c.f)

\* ~Vector(): destroy_n(data_, size_), then ~RawMemory releases the block
Destructor(v) == LiveCount(destroy_n(v.data, 0, v.size))

\* mutant of CopyAssign: copy-and-swap whatever the capacity is
CopyAssignAlwaysSwap(v, rhs, same, f) ==
    IF same THEN Done(v, "self", 0, 0, f)
    ELSE LET rhs_copy == CopyConstruct(rhs, f)
         IN IF ~rhs_copy.ok THEN Thrown(v, "copy-and-swap", rhs_copy.leaked)
            ELSE Done(rhs_copy.v, "copy-and-swap", 0, Destructor(v), rhs_copy.f)

\* Vector& operator=(const Vector& rhs); same: this == &rhs
CopyAssign(v, rhs, same, f) ==
    IF same THEN Done(v, "self", 0, 0, f)
    ELSE IF rhs.size > Capacity(v)
    THEN LET rhs_copy == CopyConstruct(rhs, f)
         IN IF ~rhs_copy.ok THEN Thrown(v, "copy-and-swap", rhs_copy.leaked)
            ELSE Done(rhs_copy.v, "copy-and-swap", 0, Destructor(v), rhs_copy.f)
    ELSE IF rhs.size < v.size
    THEN LET c == std_copy(rhs.data, 0, rhs.size, v.data, 0, f)
         IN IF c.threw THEN Thrown(Vec(c.dst, v.size), "assign", 0)
            ELSE Done(Vec(destroy_n(c.dst, rhs.size, v.size - rhs.size), rhs.size),
                      "assign", 0, 0, c.f)
    ELSE LET c == std_copy(rhs.data, 0, v.size, v.data, 0, f)
         IN IF c.threw THEN Thrown(Vec(c.dst, v.size), "assign", 0)
            ELSE LET u == uninitialized_copy_n(rhs.data, v.size, rhs.size - v.size,
                                               c.dst, v.size, c.f)
                     over == LiveIn(c.dst, v.size, rhs.size - v.size)
                            - (IF u.threw THEN LiveIn(u.dst, v.size, rhs.size - v.size) ELSE 0)
                 IN IF u.threw THEN Thrown(Vec(u.dst, v.size), "assign", over)
                    ELSE Done(Vec(u.dst, rhs.size), "assign", 0, over, u.f)

\* void Reserve(size_t new_capacity)
Reserve(v, new_capacity, f) ==
    IF new_capacity <= Capacity(v) THEN Done(v, "noop", 0, 0, f)
    ELSE IF f = 1 THEN Thrown(v, "realloc", 0)
    ELSE LET t == Transfer(v.data, 0, v.size, Allocate(new_capacity), 0, Tick(f))
         IN IF t.threw THEN Thrown(Vec(t.src, v.size), "realloc", LiveCount(t.dst))
            ELSE Done(Vec(t.dst, v.size), "realloc", 0,
                      LiveCount(destroy_n(t.src, 0, v.size)), t.f)

\* mutant of Resize: shrinking only lowers size_, the tail is not destroyed
ResizeKeepTail(v, new_size, f) ==
    IF new_size < v.size THEN Done(Vec(v.data, new_size), "shrink", 0, 0, f)
    ELSE IF new_size > v.size
    THEN LET r == IF new_size > Capacity(v) THEN Reserve(v, new_size, f)
                  ELSE Done(v, "noop", 0, 0, f)
         IN IF ~r.ok THEN Thrown(r.v, "grow", r.leaked)
            ELSE LET c == uninitialized_value_construct_n(r.v.data, v.size,
                                                          new_size - v.size, r.f)
                 IN IF c.threw THEN Thrown(Vec(c.dst, v.size), "grow", r.leaked)
                    ELSE Done(Vec(c.dst, new_size), "grow", 0, r.leaked, c.f)
    ELSE Done(Vec(v.data, new_size), "same", 0, 0, f)

\* void Resize(size_t new_size)
Resize(v, new_size, f) ==
    IF new_size < v.size
    THEN Done(Vec(destroy_n(v.data, new_size, v.size - new_size), new_size), "shrink", 0, 0, f)
    ELSE IF new_size > v.size
    THEN LET r == IF new_size > Capacity(v) THEN Reserve(v, new_size, f)
                  ELSE Done(v, "noop", 0, 0, f)
         IN IF ~r.ok THEN Thrown(r.v, "grow", r.leaked)
            ELSE LET c == uninitialized_value_construct_n(r.v.data, v.size,
                                                          new_size - v.size, r.f)
                     over == LiveIn(r.v.data, v.size, new_size - v.size)
                            - (IF c.threw THEN LiveIn(c.dst, v.size, new_size - v.size) ELSE 0)
                 IN IF c.threw THEN Thrown(Vec(c.dst, v.size), "grow", r.leaked + over)
                    ELSE Done(Vec(c.dst, new_size), "grow", 0, r.leaked + over, c.f)
    ELSE Done(Vec(v.data, new_size), "same", 0, 0, f)

\* void PopBack()
PopBack(v) == Vec(destroy_n(v.data, v.size - 1, 1), v.size - 1)

\* T& EmplaceBack(Args&&... args)
EmplaceBack(v, arg, f) ==
    IF v.size = Capacity(v)
    THEN IF f = 1 THEN Thrown(v, "realloc", 0)
         ELSE IF Tick(f) = 1 THEN Thrown(v, "realloc", 0)
         ELSE LET new_data == Put(Allocate(NewCapacity(v.size)), v.size,
                                  Obj(ArgVal(arg, v.data)))
                  t == Transfer(v.data, 0, v.size, new_data, 0, Tick(Tick(f)))
              IN IF t.threw THEN Thrown(Vec(t.src, v.size), "realloc", LiveCount(t.dst))
                 ELSE Done(Vec(t.dst, v.size + 1), "realloc", v.size,
                           LiveCount(destroy_n(t.src, 0, v.size)), t.f)
    ELSE IF f = 1 THEN Thrown(v, "inplace", 0)
         ELSE Done(Vec(Put(v.data, v.size, Obj(ArgVal(arg, v.data))), v.size + 1),
                   "inplace", v.size, LiveIn(v.data, v.size, 1), Tick(f))

\* void PushBack(Type&& value)
PushBack(v, arg, f) == EmplaceBack(v, arg, f)

\* mutant of EmplaceShift: no temp_value, the element is constructed from the
\* arguments after the shift
EmplaceShiftNoTemp(v, index, arg, f) ==
    IF f = 1 /\ ~T.nothrow_move_constructible THEN Thrown(v, "shift", 0)
    ELSE LET over == LiveIn(v.data, v.size, 1)
             d1 == Put(Put(v.data, v.size, Obj(At(v.data, v.size - 1).val)),
                       v.size - 1, Obj(MovedFrom))
             f2 == IF T.nothrow_move_constructible THEN f ELSE Tick(f)
             m == std_move_backward(d1, index, v.size - 1, v.size, f2)
         IN IF m.threw THEN Thrown(Vec(m.dst, v.size), "shift", over)
            ELSE IF m.f = 1 THEN Thrown(Vec(m.dst, v.size), "shift", over)
            ELSE Done(Vec(Put(m.dst, index, Obj(ArgVal(arg, m.dst))), v.size + 1), "shift",
                      index, over, Tick(m.f))

\* void EmplaceShift(size_t index, Args&&... args)
EmplaceShift(v, index, arg, f) ==
    IF f = 1 THEN Thrown(v, "shift", 0)
    ELSE IF Tick(f) = 1 /\ ~T.nothrow_move_constructible THEN Thrown(v, "shift", 0)
    ELSE LET temp_value == ArgVal(arg, v.data)
             over == LiveIn(v.data, v.size, 1)
             d1 == Put(Put(v.data, v.size, Obj(At(v.data, v.size - 1).val)),
                       v.size - 1, Obj(MovedFrom))
             f2 == IF T.nothrow_move_constructible THEN Tick(f) ELSE Tick(Tick(f))
             m == std_move_backward(d1, index, v.size - 1, v.size, f2)
         IN IF m.threw THEN Thrown(Vec(m.dst, v.size), "shift", over)
            ELSE IF m.f = 1 /\ ~T.nothrow_move_assignable
            THEN Thrown(Vec(m.dst, v.size), "shift", over)
            ELSE Done(Vec(Put(m.dst, index, Obj(temp_value)), v.size + 1), "shift", index,
                      over, IF T.nothrow_move_assignable THEN m.f ELSE Tick(m.f))

\* void EmplaceReallocate(size_t index, Args&&... args)
EmplaceReallocate(v, index, arg, f) ==
    IF f = 1 THEN Thrown(v, "realloc", 0)
    ELSE IF Tick(f) = 1 THEN Thrown(v, "realloc", 0)
    ELSE LET new_data == Put(Allocate(NewCapacity(v.size)), index, Obj(ArgVal(arg, v.data)))
             p == Transfer(v.data, 0, index, new_data, 0, Tick(Tick(f)))
             s == IF p.threw THEN p
                  ELSE Transfer(p.src, index, v.size - index, p.dst, index + 1, p.f)
         IN IF s.threw
            THEN Thrown(Vec(s.src, v.size), "realloc", LiveCount(destroy_n(s.dst, index, 1)))
            ELSE Done(Vec(s.dst, v.size + 1), "realloc", index,
                      LiveCount(destroy_n(s.src, 0, v.size)), s.f)

\* iterator Emplace(const_iterator pos, Args&&... args); index = pos - begin()
Emplace(v, index, arg, f) ==
    IF v.size < Capacity(v)
    THEN IF index = v.size
         THEN [EmplaceBack(v, arg, f) EXCEPT !.ret = index]
         ELSE [EmplaceShift(v, index, arg, f) EXCEPT !.ret = index]
    ELSE [EmplaceReallocate(v, index, arg, f) EXCEPT !.ret = index]

\* iterator Insert(const_iterator pos, const T& value)
Insert(v, index, arg, f) == Emplace(v, index, arg, f)

\* mutant of Erase: the elements after pos are not moved
EraseNoShift(v, index, f) == Done(PopBack(v), "erase", index, 0, f)

\* iterator Erase(const_iterator pos); index = pos - begin()
Erase(v, index, f) ==
    LET m == std_move(v.data, index + 1, v.size, index, f)
    IN IF m.threw THEN Thrown(Vec(m.dst, v.size), "erase", 0)
       ELSE Done(PopBack(Vec(m.dst, v.size)), "erase", index, 0, m.f)

\* void Swap(Vector& other): data_.Swap(other.data_); std::swap(size_, other.size_)
Swap(this, other) == [this |-> other, other |-> this]

\* Vector(Vector&& other): a default-initialised vector, then Swap(other)
MoveConstruct(other) == Swap(Vec(<<>>, 0), other)

\* Vector& operator=(Vector&& rhs); same: this == &rhs
MoveAssignment(this, rhs, same) ==
    IF same THEN [this |-> this, other |-> rhs] ELSE Swap(this, rhs)

\* ---------------------------------------------------------------- calls
NoCall ==
    [op |-> "none", tgt |-> "a", src |-> "a", n |-> 0, arg |-> NoArg, fault |-> 0, ok |-> TRUE,
     path |-> "none", ret |-> 0, leaked |-> 0, pre |-> Dead, preSrc |-> Dead]

Record(op, x, y, n, arg, f, r) ==
    [op |-> op, tgt |-> x, src |-> y, n |-> n, arg |-> arg, fault |-> f, ok |-> r.ok,
     path |-> r.path, ret |-> r.ret, leaked |-> r.leaked, pre |-> vec[x], preSrc |-> vec[y]]

\* one call on vec[x] with outcome r; vec[y] is its other operand (y = x when none)
Call(op, x, y, n, arg, f, r) ==
    /\ last = NoCall
    /\ r.ok => r.f = 0          \* a fault past the last step is no fault: f = 0 covers it
    /\ vec' = [vec EXCEPT ![x] = r.v]
    /\ last' = Record(op, x, y, n, arg, f, r)
    /\ UNCHANGED <<T, raw, heap, lastRaw>>

\* one call on vec[x] and vec[y] that leaves them as s.this and s.other
Call2(op, x, y, s) ==
    /\ last = NoCall
    /\ vec' = [vec EXCEPT ![y] = s.other, ![x] = s.this]
    /\ last' = Record(op, x, y, 0, NoArg, 0, Done(s.this, op, 0, 0, 0))
    /\ UNCHANGED <<T, raw, heap, lastRaw>>

\* the record of the last call is dropped before the next call is made
Return ==
    /\ last # NoCall
    /\ last' = NoCall
    /\ UNCHANGED <<T, vec, raw, heap, lastRaw>>

\* the arguments of a call: a value the new element is constructed from, or
\* (PushBack, Insert) a const T& that refers to an element of the vector itself
ElementRefs(v) == {[ref |-> TRUE, x |-> j] : j \in 0..(v.size - 1)}
NewValues == {[ref |-> FALSE, x |-> w] : w \in Values}

CallDefault(x) ==
    /\ ~vec[x].alive
    /\ Call("Vector", x, x, 0, NoArg, 0, Done(Vec(<<>>, 0), "default", 0, 0, 0))

CallSized(x, F) ==
    /\ ~vec[x].alive
    /\ \E n \in 0..MaxSize : \E f \in F \cap Faults(n + 1) : Call("Vector(size)", x, x, n, NoArg, f, SizedConstruct(n, f))

CallDestroy(x) ==
    /\ vec[x].alive
    /\ Call("~Vector", x, x, 0, NoArg, 0, Done(Dead, "destroy", 0, Destructor(vec[x]), 0))

CallReserve(x, F) ==
    /\ vec[x].alive
    /\ \E n \in 0..MaxSize, f \in F \cap Faults(vec[x].size + 1) : Call("Reserve", x, x, n, NoArg, f, Reserve(vec[x], n, f))

CallResize(x, F) ==
    /\ vec[x].alive
    /\ \E n \in 0..MaxSize : \E f \in F \cap Faults(n + 1) : Call("Resize", x, x, n, NoArg, f, Resize(vec[x], n, f))

CanGrow(v) == v.size < MaxSize

CallEmplaceBack(x, F) ==
    /\ vec[x].alive
    /\ CanGrow(vec[x])
    /\ \E arg \in NewValues, f \in F \cap Faults(vec[x].size + 2) :
          Call("EmplaceBack", x, x, vec[x].size, arg, f, EmplaceBack(vec[x], arg, f))

CallPushBack(x, F) ==
    /\ vec[x].alive
    /\ T.copy_constructible
    /\ CanGrow(vec[x])
    /\ \E arg \in ElementRefs(vec[x]), f \in F \cap Faults(vec[x].size + 2) :
          Call("PushBack", x, x, vec[x].size, arg, f, PushBack(vec[x], arg, f))

CallPopBack(x) ==
    /\ vec[x].alive
    /\ vec[x].size > 0
    /\ Call("PopBack", x, x, 0, NoArg, 0, Done(PopBack(vec[x]), "pop", 0, 0, 0))

CallEmplace(x, F) ==
    /\ vec[x].alive
    /\ CanGrow(vec[x])
    /\ \E index \in 0..vec[x].size, arg \in NewValues, f \in F \cap Faults(vec[x].size + 2) :
          Call("Emplace", x, x, index, arg, f, Emplace(vec[x], index, arg, f))

CallInsert(x, F) ==
    /\ vec[x].alive
    /\ T.copy_constructible
    /\ CanGrow(vec[x])
    /\ \E index \in 0..vec[x].size, arg \in ElementRefs(vec[x]),
          f \in F \cap Faults(vec[x].size + 2) :
          Call("Insert", x, x, index, arg, f, Insert(vec[x], index, arg, f))

CallErase(x, F) ==
    /\ vec[x].alive
    /\ \E index \in 0..(vec[x].size - 1), f \in F \cap Faults(vec[x].size) :
          Call("Erase", x, x, index, NoArg, f, Erase(vec[x], index, f))

CallCopyConstruct(x, y, F) ==
    /\ ~vec[x].alive
    /\ vec[y].alive
    /\ T.copy_constructible
    /\ \E f \in F \cap Faults(vec[y].size + 1) : Call("Vector(const&)", x, y, 0, NoArg, f, CopyConstruct(vec[y], f))

CallCopyAssign(x, y, F) ==
    /\ vec[x].alive
    /\ vec[y].alive
    /\ T.copy_constructible
    /\ \E f \in F \cap Faults(vec[y].size + 1) :
          Call("operator=(const&)", x, y, 0, NoArg, f, CopyAssign(vec[x], vec[y], x = y, f))

CallMoveConstruct(x, y) ==
    /\ ~vec[x].alive
    /\ vec[y].alive
    /\ Call2("Vector(&&)", x, y, MoveConstruct(vec[y]))

CallMoveAssign(x, y) ==
    /\ vec[x].alive
    /\ vec[y].alive
    /\ Call2("operator=(&&)", x, y, MoveAssignment(vec[x], vec[y], x = y))

CallSwap(x, y) ==
    /\ vec[x].alive
    /\ vec[y].alive
    /\ Call2("Swap", x, y, Swap(vec[x], vec[y]))

\* ---------------------------------------------------------------- RawMemory<T>
nullptr == 0
Blocks == 1..NumBlocks

NoRaw == [alive |-> FALSE, buffer |-> nullptr, capacity |-> 0]
RawMem(b, c) == [alive |-> TRUE, buffer |-> b, capacity |-> c]

\* static void Deallocate(T* buf): operator delete(buf); deleting a block that
\* is not allocated is a double free
Deallocate(h, buf) ==
    IF buf = nullptr THEN [heap |-> h, doubleFree |-> FALSE]
    ELSE IF h[buf] THEN [heap |-> [h EXCEPT ![buf] = FALSE], doubleFree |-> FALSE]
    ELSE [heap |-> h, doubleFree |-> TRUE]

\* void RawMemory::Swap(RawMemory& other)
RawSwap(this, other) ==
    [this |-> RawMem(other.buffer, other.capacity),
     other |-> RawMem(this.buffer, this.capacity)]

\* RawMemory(RawMemory&& other)
RawMoveConstruct(other) ==
    [this |-> RawMem(other.buffer, other.capacity), other |-> RawMem(nullptr, 0)]

\* RawMemory& operator=(RawMemory&& rhs); same: this == &rhs
RawMoveAssign(h, this, rhs, same) ==
    IF same THEN [this |-> this, other |-> rhs, heap |-> h, doubleFree |-> FALSE]
    ELSE LET d == Deallocate(h, this.buffer)
             s == RawSwap(RawMem(this.buffer, 0), rhs)
         IN [this |-> s.this, other |-> s.other, heap |-> d.heap, doubleFree |-> d.doubleFree]

NoRawCall == [op |-> "none", tgt |-> "a", src |-> "a", doubleFree |-> FALSE]

RawCall(op, x, y, this, other, h, df) ==
    /\ raw' = [raw EXCEPT ![y] = other, ![x] = this]
    /\ heap' = h
    /\ lastRaw' = [op |-> op, tgt |-> x, src |-> y, doubleFree |-> df]
    /\ UNCHANGED <<T, vec, last>>

\* RawMemory() = default
RawDefault(x) ==
    /\ ~raw[x].alive
    /\ RawCall("RawMemory", x, x, RawMem(nullptr, 0), RawMem(nullptr, 0), heap, FALSE)

\* explicit RawMemory(size_t capacity): Allocate(n) is operator new for n != 0,
\* nullptr for n = 0; operator new returns any block that is not allocated
RawCreate(x) ==
    /\ ~raw[x].alive
    /\ \E n \in 0..MaxRawCap :
          IF n = 0
          THEN RawCall("RawMemory(n)", x, x, RawMem(nullptr, 0), RawMem(nullptr, 0), heap, FALSE)
          ELSE \E b \in Blocks :
                  /\ ~heap[b]
                  /\ RawCall("RawMemory(n)", x, x, RawMem(b, n), RawMem(b, n),
                             [heap EXCEPT ![b] = TRUE], FALSE)

RawMoveCtor(x, y) ==
    /\ ~raw[x].alive
    /\ raw[y].alive
    /\ RawCall("RawMemory(&&)", x, y, RawMoveConstruct(raw[y]).this,
               RawMoveConstruct(raw[y]).other, heap, FALSE)

RawMoveAsg(x, y) ==
    /\ raw[x].alive
    /\ raw[y].alive
    /\ LET r == RawMoveAssign(heap, raw[x], raw[y], x = y)
       IN RawCall("operator=(&&)", x, y, r.this, r.other, r.heap, r.doubleFree)

RawSwapCall(x, y) ==
    /\ raw[x].alive
    /\ raw[y].alive
    /\ RawCall("Swap", x, y, RawSwap(raw[x], raw[y]).this, RawSwap(raw[x], raw[y]).other,
               heap, FALSE)

\* ~RawMemory(): Deallocate(buffer_)
RawDestroy(x) ==
    /\ raw[x].alive
    /\ RawCall("~RawMemory", x, x, NoRaw, NoRaw, Deallocate(heap, raw[x].buffer).heap,
               Deallocate(heap, raw[x].buffer).doubleFree)

\* ---------------------------------------------------------------- specifications
NoVectors == [x \in Names |-> Dead]
NoRaws == [x \in Names |-> NoRaw]
NoHeap == [b \in Blocks |-> FALSE]
AllFaults == Faults(MaxSize + 2)

\* one Vector of any element type, every call, every fault
Init ==
    /\ T \in ElementTypes
    /\ vec = NoVectors
    /\ last = NoCall
    /\ raw = NoRaws
    /\ heap = NoHeap
    /\ lastRaw = NoRawCall

Next ==
    \E x \in {"a"} :
        \/ CallDefault(x)
        \/ CallSized(x, AllFaults)
        \/ CallDestroy(x)
        \/ CallReserve(x, AllFaults)
        \/ CallResize(x, AllFaults)
        \/ CallEmplaceBack(x, AllFaults)
        \/ CallPushBack(x, AllFaults)
        \/ CallPopBack(x)
        \/ CallEmplace(x, AllFaults)
        \/ CallInsert(x, AllFaults)
        \/ CallErase(x, AllFaults)
        \/ CallCopyAssign(x, x, AllFaults)
        \/ CallMoveAssign(x, x)
        \/ CallSwap(x, x)
        \/ Return

Spec == Init /\ [][Next]_vars

\* two Vectors of a copyable element type: construction, copy, move, swap
InitPair ==
    /\ Init
    /\ T.copy_constructible
    /\ T.nothrow_move_constructible

Small(v) == v.size <= PairSize /\ Capacity(v) <= PairSize + 1

NextPair ==
    \E x \in Names, y \in Names :
        \/ CallDefault(x)
        \/ CallSized(x, NoFault) /\ Small(vec'[x])
        \/ CallDestroy(x)
        \/ CallReserve(x, NoFault) /\ Small(vec'[x])
        \/ CallEmplaceBack(x, NoFault) /\ Small(vec'[x])
        \/ CallPopBack(x)
        \/ CallCopyConstruct(x, y, AllFaults)
        \/ CallCopyAssign(x, y, AllFaults)
        \/ CallMoveConstruct(x, y)
        \/ CallMoveAssign(x, y)
        \/ CallSwap(x, y)
        \/ Return

SpecPair == InitPair /\ [][NextPair]_vars

\* two RawMemory objects over a heap of NumBlocks blocks
NextRaw ==
    \E x \in Names, y \in Names :
        \/ RawDefault(x)
        \/ RawCreate(x)
        \/ RawMoveCtor(x, y)
        \/ RawMoveAsg(x, y)
        \/ RawSwapCall(x, y)
        \/ RawDestroy(x)

SpecRaw == InitPair /\ [][NextRaw]_vars

\* ---------------------------------------------------------------- properties
cur == vec[last.tgt]
Max(a, b) == IF a >= b THEN a ELSE b
Inserting == last.op \in {"Emplace", "Insert"}
Appending == last.op \in {"EmplaceBack", "PushBack"}
Reallocated == last.path = "realloc" /\ (Inserting \/ Appending \/ last.op = "Reserve")
\* same count, capacity and element values
Same(v, w) == v.size = w.size /\ Capacity(v) = Capacity(w) /\ Elements(v) = Elements(w)
Zeros(n) == [k \in 1..n |-> 0]

\* C1: in every reachable state of every Vector, 0 <= count <= capacity, the
\* slots [0, count) hold live objects and the slots [count, capacity) hold none.
C1_CountCapacityLive ==
    \A x \in Names :
        vec[x].alive =>
            /\ 0 <= vec[x].size
            /\ vec[x].size <= Capacity(vec[x])
            /\ \A k \in 1..Capacity(vec[x]) : vec[x].data[k].live <=> (k <= vec[x].size)

\* C2 as stated: for every element type, a Reserve, PushBack/EmplaceBack or
\* Emplace/Insert that reallocates and fails leaves count, capacity and every
\* element value as they were before the call.
C2_StrongGuaranteeAnyType ==
    (Reallocated /\ ~last.ok) => Same(cur, last.pre)

\* C2 as amended: the same, for an element type that is copy-constructible or
\* whose move constructor cannot throw.
C2_StrongGuarantee ==
    (Reallocated /\ ~last.ok /\ (T.copy_constructible \/ T.nothrow_move_constructible))
        => Same(cur, last.pre)

\* a reallocating Insert in the middle of two elements failed at the copy of the
\* second one, for a type that is copied because its move may throw
C2_Witness ==
    /\ Reallocated /\ last.op = "Insert" /\ ~last.ok
    /\ T.copy_constructible /\ ~T.nothrow_move_constructible
    /\ last.pre.size = 2 /\ last.n = 1 /\ last.fault = 4

\* C3: after a is moved into b, by move construction or by move assignment
\* into a b in any state, a has count 0 and capacity 0 and b holds what a held.
C3_MoveEmptiesSource ==
    (last.op \in {"Vector(&&)", "operator=(&&)"} /\ last.tgt # last.src)
        => /\ vec[last.src].size = 0
           /\ Capacity(vec[last.src]) = 0
           /\ cur = last.preSrc

\* C4: for every RawMemory, after any sequence of construction, move
\* construction, move assignment and Swap, buffer is null exactly when
\* capacity is 0, and no block is released twice.
C4_NullIffNoCapacity ==
    /\ \A x \in Names :
          raw[x].alive => ((raw[x].buffer = nullptr) <=> (raw[x].capacity = 0))
    /\ ~lastRaw.doubleFree

\* C5: a successful PushBack, EmplaceBack, Emplace or Insert called with
\* count = capacity leaves capacity max(1, 2 * old capacity); called with
\* count < capacity it leaves the capacity unchanged.
C5_GrowthLaw ==
    ((Inserting \/ Appending) /\ last.ok)
        => Capacity(cur) = IF last.pre.size = Capacity(last.pre)
                           THEN Max(1, 2 * Capacity(last.pre))
                           ELSE Capacity(last.pre)

\* a PushBack into a full block of 2 succeeded
C5_Witness ==
    /\ Appending /\ last.ok
    /\ last.pre.size = 2 /\ Capacity(last.pre) = 2
    /\ Capacity(cur) = 4

\* C6: a successful Insert/Emplace of v at index i into the sequence s yields
\* s[0..i) ++ [v] ++ s[i..count), count + 1 elements, and returns index i; v is
\* the value the argument had before the call, also when it is an element of s.
C6_Insert ==
    (Inserting /\ last.ok)
        => LET s == Elements(last.pre)
               i == last.n
               v == ArgVal(last.arg, last.pre.data)
           IN /\ Elements(cur) = SubSeq(s, 1, i) \o <<v>> \o SubSeq(s, i + 1, Len(s))
              /\ cur.size = last.pre.size + 1
              /\ last.ret = i

\* an Insert before an element of the vector, of that element itself, shifted
\* it in place, and its neighbour has another value
C6_Witness ==
    /\ last.op = "Insert" /\ last.ok /\ last.path = "shift"
    /\ last.arg.ref /\ last.arg.x > last.n
    /\ At(last.pre.data, last.arg.x).val # At(last.pre.data, last.arg.x - 1).val

\* C7: Erase at index i of the sequence s yields s[0..i) ++ s[i+1..count),
\* count - 1 elements, the same capacity, the vacated last slot destroyed, and
\* returns index i.
C7_Erase ==
    (last.op = "Erase" /\ last.ok)
        => LET s == Elements(last.pre)
               i == last.n
           IN /\ Elements(cur) = SubSeq(s, 1, i) \o SubSeq(s, i + 2, Len(s))
              /\ cur.size = last.pre.size - 1
              /\ Capacity(cur) = Capacity(last.pre)
              /\ ~cur.data[last.pre.size].live
              /\ last.ret = i

\* the first of three different elements was erased
C7_Witness ==
    /\ last.op = "Erase" /\ last.ok
    /\ last.n = 0 /\ last.pre.size = 3
    /\ Elements(last.pre)[2] # Elements(last.pre)[3]
    /\ LiveCount(last.pre.data) = 3

\* C8: a successful a = rhs leaves a with the count and the elements of rhs and
\* rhs unchanged; the capacity of a is unchanged when rhs.count <= capacity,
\* else it is rhs.count.  When the copy throws on the path rhs.count > capacity,
\* a is as before.  a = a leaves a unchanged.
C8_CopyAssign ==
    (last.op = "operator=(const&)")
        => IF last.tgt = last.src THEN cur = last.pre
           ELSE /\ vec[last.src] = last.preSrc
                /\ last.ok =>
                      /\ cur.size = last.preSrc.size
                      /\ Elements(cur) = Elements(last.preSrc)
                      /\ Capacity(cur) = IF last.preSrc.size <= Capacity(last.pre)
                                         THEN Capacity(last.pre)
                                         ELSE last.preSrc.size
                /\ (~last.ok /\ last.preSrc.size > Capacity(last.pre)) => cur = last.pre

\* a = rhs copied two elements of rhs over the one element of a, in place
C8_Witness ==
    /\ last.op = "operator=(const&)" /\ last.ok /\ last.tgt # last.src
    /\ last.pre.size = 1 /\ Capacity(last.pre) = 3
    /\ last.preSrc.size = 2
    /\ Elements(last.preSrc) # <<Elements(last.pre)[1], Elements(last.pre)[1]>>

\* C9: a successful Resize(n) of the sequence s leaves count n; for n < count
\* the result is s[0..n), the capacity is unchanged and the trailing elements
\* are destroyed; for n > count the result is s followed by n - count
\* default-constructed elements and capacity >= n.
C9_Resize ==
    (last.op = "Resize" /\ last.ok)
        => LET s == Elements(last.pre)
               n == last.n
           IN /\ cur.size = n
              /\ n < Len(s) =>
                    /\ Elements(cur) = SubSeq(s, 1, n)
                    /\ Capacity(cur) = Capacity(last.pre)
                    /\ \A k \in (n + 1)..Len(s) : ~cur.data[k].live
                    /\ last.leaked = 0
              /\ n > Len(s) =>
                    /\ Elements(cur) = s \o Zeros(n - Len(s))
                    /\ Capacity(cur) >= n
              /\ n = Len(s) => cur = last.pre

\* a Resize from one non-default element to three reallocated
C9_Witness ==
    /\ last.op = "Resize" /\ last.ok
    /\ last.pre.size = 1 /\ Capacity(last.pre) = 1 /\ Elements(last.pre)[1] # 0
    /\ last.n = 3

\* C10: every object the Vector constructs is destroyed before the block that
\* holds it is released or reused; no call loses an object without a
\* destructor call, also when a reallocating call fails partway.
C10_NoLeak == last.leaked = 0

====
